---- MODULE Spec2Model ----
(***************************************************************************)
(* Talemo authentication session synchronisation: the blocking auth gate,  *)
(* the login overlay, the accounts authentication provider and the         *)
(* sign-out command, all sharing the application-scoped storage service.   *)
(*                                                                         *)
(* JavaScript is single threaded: every handler runs to completion, and    *)
(* storage change listeners run synchronously inside store()/remove().     *)
(* The only suspension point is the network exchange of handleLogin, so a  *)
(* submission is two actions: Submit (up to the fetch) and Response (the   *)
(* continuation after the awaits).  Each action leaves in `log` the        *)
(* ordered effects of the handler that just ran, and in `lastOp` its name  *)
(* and the overlay it ran on.                                              *)
(***************************************************************************)
EXTENDS Integers, Sequences, FiniteSets, TLC

VARIABLES
    contribution,   \* which variant of the contribution module is loaded
    storage,        \* IStorageService, APPLICATION scope: key -> text
    gate,           \* TalemoAuthGate lifecycle
    overlays,       \* every TalemoAuthOverlay constructed so far
    lastOp,         \* the handler that ran last, its overlay, its response kind
    log             \* ordered effects of the handler that ran last

vars == <<contribution, storage, gate, overlays, lastOp, log>>

---------------------------------------------------------------------------
(* Bounds *)

MaxOverlays == 2     \* overlay instances constructed in one run
MaxInflight == 2     \* exchanges in flight at one time

---------------------------------------------------------------------------
(* Values *)

AUTH_TOKEN_KEY == "talemo.auth.accessToken"
AUTH_USER_KEY == "talemo.auth.user"
Keys == {AUTH_TOKEN_KEY, AUTH_USER_KEY}

Undefined == "<undefined>"          \* JavaScript undefined / absent key
UndefinedUser == [undefined |-> TRUE]
NullSession == [null |-> TRUE]      \* readSession's null
NoSessions == <<>>                  \* `added: undefined` / `removed: undefined`

Tokens == {"tok1", "tok2"}
Users == {[id |-> "1", email |-> "a@x.com"], [id |-> "42", email |-> "b@x.com"]}

\* JSON.stringify of data.user: undefined stays undefined, a user record
\* becomes its JSON text.
JSONStringify(v) ==
    IF v = UndefinedUser THEN Undefined
    ELSE "{\"id\":\"" \o v.id \o "\",\"email\":\"" \o v.email \o "\"}"

UserTexts == {JSONStringify(u) : u \in Users}
\* Texts that are not the serialisation of a user record: not JSON at all,
\* and an object without id and email.
MalformedTexts == {"not-json", "{}"}
StoredUserTexts == UserTexts \cup MalformedTexts
StoredTokens == Tokens

\* JSON.parse: throws on text that is not JSON, otherwise the parsed value.
JSONParse(text) ==
    IF text \in UserTexts
    THEN LET u == CHOOSE u \in Users : JSONStringify(u) = text
         IN [throws |-> FALSE, id |-> u.id, email |-> u.email]
    ELSE IF text = "{}"
    THEN [throws |-> FALSE, id |-> Undefined, email |-> Undefined]
    ELSE [throws |-> TRUE, id |-> Undefined, email |-> Undefined]

\* `${v}` in a template literal.
TemplateStr(v) == IF v = Undefined THEN "undefined" ELSE v

\* !v for a string or undefined.
Falsy(v) == v = Undefined \/ v = ""

\* String.prototype.trim over the inputs of the model.
Trim(s) == IF s = " " THEN "" ELSE s

---------------------------------------------------------------------------
(* World: the mutable state a handler threads through its statements *)

World == [storage |-> storage, overlays |-> overlays, log |-> <<>>]

Emit(w, e) == [w EXCEPT !.log = Append(@, e)]

---------------------------------------------------------------------------
(* TalemoAuthOverlay *)

NewOverlay(owner) ==
    [owner |-> owner, attached |-> FALSE, pending |-> 0,
     disabled |-> FALSE, buttonText |-> "Sign In", errorVisible |-> FALSE]

\* show(): creates the backdrop and appends it to the container.
show(w, o) ==
    Emit([w EXCEPT !.overlays[o].attached = TRUE], [ev |-> "show", overlay |-> o])

\* hide(): detaches the backdrop if there is one.
hide(w, o) ==
    Emit([w EXCEPT !.overlays[o].attached = FALSE], [ev |-> "hide", overlay |-> o])

\* dispose(): hide, then Disposable.dispose.
dispose(w, o) == hide(w, o)

\* showError(): sets the text of the error box and makes it visible.  The
\* text is kept in the effect, the visibility in the overlay.

showError(w, o, message) ==
    Emit([w EXCEPT !.overlays[o].errorVisible = TRUE],
         [ev |-> "ui", overlay |-> o, what |-> "showError", text |-> message])

\* hideError(): makes the error box invisible.
hideError(w, o) ==
    Emit([w EXCEPT !.overlays[o].errorVisible = FALSE],
         [ev |-> "ui", overlay |-> o, what |-> "hideError", text |-> ""])

\* button.disabled = ...; button.textContent = ...
setButton(w, o, disabled, text) ==
    Emit([w EXCEPT !.overlays[o].disabled = disabled, !.overlays[o].buttonText = text],
         [ev |-> "ui", overlay |-> o, what |-> "button", text |-> text])

---------------------------------------------------------------------------
(* TalemoAuthGate *)

\* showLoginOverlay(): constructs an overlay, registers it with the gate and
\* shows it.
showLoginOverlay(w) ==
    LET o == Len(w.overlays) + 1
        w1 == [w EXCEPT !.overlays = Append(@, NewOverlay("gate"))]
    IN show(w1, o)

\* A checkAuth without its try/catch: a throwing read leaves the constructor.
checkAuth_noCatch(w, readThrows) ==
    LET token == w.storage[AUTH_TOKEN_KEY]
    IN IF readThrows THEN Emit(w, [ev |-> "throw"])
       ELSE IF ~Falsy(token) THEN w ELSE showLoginOverlay(w)

\* checkAuth(): a truthy token leaves the workbench alone, anything else,
\* a throwing read included, shows the login overlay.
checkAuth(w, readThrows) ==
    LET token == w.storage[AUTH_TOKEN_KEY]
    IN IF readThrows THEN showLoginOverlay(w)
       ELSE IF ~Falsy(token) THEN w ELSE showLoginOverlay(w)

\* The listener the gate registers on the token key.
gateOnDidChangeValue(w) ==
    LET token == w.storage[AUTH_TOKEN_KEY]
    IN IF Falsy(token) THEN showLoginOverlay(w) ELSE w

---------------------------------------------------------------------------
(* TalemoAuthenticationProvider *)

\* A readSession that labels the account with the user id.
readSession_labelIsId(st) ==
    LET token == st[AUTH_TOKEN_KEY]
        userJson == st[AUTH_USER_KEY]
        parsed == JSONParse(userJson)
        user == IF ~Falsy(userJson) THEN parsed
                ELSE [throws |-> FALSE, id |-> "unknown", email |-> "unknown"]
    IN IF Falsy(token) THEN NullSession
       ELSE IF user.throws THEN NullSession
       ELSE [id |-> "talemo-" \o TemplateStr(user.id),
             accessToken |-> token,
             account |-> [id |-> user.id, label |-> user.id],
             scopes |-> <<"talemo">>]

\* readSession(): null without a truthy token; otherwise the session built
\* from the token and the parsed user text, or null when building it throws.
readSession(st) ==
    LET token == st[AUTH_TOKEN_KEY]
        userJson == st[AUTH_USER_KEY]
        parsed == JSONParse(userJson)
        user == IF ~Falsy(userJson) THEN parsed
                ELSE [throws |-> FALSE, id |-> "unknown", email |-> "unknown"]
    IN IF Falsy(token) THEN NullSession
       ELSE IF user.throws THEN NullSession
       ELSE [id |-> "talemo-" \o TemplateStr(user.id),
             accessToken |-> token,
             account |-> [id |-> user.id, label |-> user.email],
             scopes |-> <<"talemo">>]

\* The listener the provider registers on the token key.
providerOnDidChangeValue(w) ==
    LET session == readSession(w.storage)
    IN IF session # NullSession
       THEN Emit(w, [ev |-> "fire", added |-> <<session>>, removed |-> NoSessions])
       ELSE Emit(w, [ev |-> "fire", added |-> NoSessions, removed |-> NoSessions])

\* getSessions(): the session in a one-element list, or the empty list.
getSessions(st) ==
    LET session == readSession(st)
    IN IF session # NullSession THEN <<session>> ELSE <<>>

---------------------------------------------------------------------------
(* IStorageService, APPLICATION scope *)

\* Listeners of onDidChangeValue for a key, in registration order: the gate
\* (BlockRestore) before the provider (AfterRestored).
onDidChangeValue(w, key) ==
    IF key # AUTH_TOKEN_KEY THEN w
    ELSE LET w1 == IF gate = "alive" /\ contribution = "watcher"
                   THEN gateOnDidChangeValue(w) ELSE w
         IN providerOnDidChangeValue(w1)

\* remove(key): deletes the key; listeners run when a value was deleted.
storageRemove(w, key) ==
    IF w.storage[key] = Undefined THEN w
    ELSE onDidChangeValue([w EXCEPT !.storage[key] = Undefined], key)

\* store(key, value): an undefined value removes the key; listeners run
\* when the stored value changed.
storageStore(w, key, value) ==
    IF value = Undefined THEN storageRemove(w, key)
    ELSE IF w.storage[key] = value THEN w
    ELSE onDidChangeValue([w EXCEPT !.storage[key] = value], key)

\* The calls as the components make them, with the call recorded.
remove(w, key) ==
    storageRemove(Emit(w, [ev |-> "remove", key |-> key]), key)

store(w, key, value) ==
    storageStore(Emit(w, [ev |-> "store", key |-> key, value |-> value]), key, value)

---------------------------------------------------------------------------
(* Actions *)

Op(name) == [op |-> name, overlay |-> 0, kind |-> ""]

\* Exchanges in flight over the first n overlays.
RECURSIVE InFlight(_, _)
InFlight(ov, n) == IF n = 0 THEN 0 ELSE ov[n].pending + InFlight(ov, n - 1)

\* The handler's final world becomes the next state, within the bounds.
Commit(w, op) ==
    /\ Len(w.overlays) <= MaxOverlays
    /\ InFlight(w.overlays, Len(w.overlays)) <= MaxInflight
    /\ storage' = w.storage
    /\ overlays' = w.overlays
    /\ log' = w.log
    /\ lastOp' = op

\* new TalemoAuthGate(...): checkAuth, whose read of the token may throw
\* (storage unavailable); an exception that leaves the constructor leaves no
\* gate.
TalemoAuthGate(w, readThrows) == checkAuth(w, readThrows)

\* The state after the workbench constructed the gate on the persisted
\* storage and registered the provider.
Init ==
    /\ contribution \in {"watcher", "reshow"}
    /\ storage \in {[k \in Keys |-> IF k = AUTH_TOKEN_KEY THEN t ELSE u] :
                        t \in StoredTokens \cup {Undefined},
                        u \in StoredUserTexts \cup {Undefined}}
    /\ \E readThrows \in BOOLEAN :
          LET w == TalemoAuthGate([storage |-> storage, overlays |-> <<>>, log |-> <<>>],
                                  readThrows)
          IN /\ gate = IF \E i \in 1..Len(w.log) : w.log[i].ev = "throw"
                       THEN "failed" ELSE "alive"
             /\ overlays = w.overlays
             /\ log = w.log
             /\ lastOp = [Op("init") EXCEPT !.kind = IF readThrows THEN "readThrows" ELSE ""]

\* Disposing the gate disposes everything registered with it: the overlays
\* it constructed, in order, and its storage listener.
RECURSIVE disposeRegistered(_, _)
disposeRegistered(w, i) ==
    IF i > Len(w.overlays) THEN w
    ELSE disposeRegistered(IF w.overlays[i].owner = "gate" THEN dispose(w, i) ELSE w, i + 1)

GateDispose ==
    /\ gate = "alive"
    /\ gate' = "disposed"
    /\ Commit(disposeRegistered(World, 1), Op("gateDispose"))
    /\ UNCHANGED contribution

\* A sign-out that forgets the user record.
signOutWatcher_keepsUser(w) ==
    remove(w, AUTH_TOKEN_KEY)

\* The talemo.auth.signOut command of the storage-watching contribution.
signOutWatcher(w) ==
    LET w1 == remove(w, AUTH_USER_KEY)
    IN remove(w1, AUTH_TOKEN_KEY)

\* The talemo.auth.signOut command of the contribution that re-shows the
\* overlay itself.
signOutReshow(w) ==
    LET w1 == remove(w, AUTH_TOKEN_KEY)
        w2 == remove(w1, AUTH_USER_KEY)
        o == Len(w2.overlays) + 1
        w3 == [w2 EXCEPT !.overlays = Append(@, NewOverlay("command"))]
    IN show(w3, o)

signOut ==
    /\ Commit(IF contribution = "watcher" THEN signOutWatcher(World)
              ELSE signOutReshow(World), Op("signOut"))
    /\ UNCHANGED <<contribution, gate>>

\* handleLogin up to the fetch: validation, then the button is disabled and
\* the exchange is issued.
handleLoginSubmit(w, o, emailValue, passwordValue) ==
    LET email == Trim(emailValue)
        password == passwordValue
    IN IF Falsy(email) \/ Falsy(password)
       THEN showError(w, o, "Please enter your email and password.")
       ELSE LET w1 == setButton(w, o, TRUE, "Signing in...")
                w2 == hideError(w1, o)
            IN Emit([w2 EXCEPT !.overlays[o].pending = @ + 1],
                    [ev |-> "fetch", overlay |-> o])

EmailInputs == {" ", "a@x.com"}
PasswordInputs == {"", " ", "p"}

\* A click on the button (which a disabled button does not deliver) or Enter
\* in the password field of an overlay that is in the document.
Submit(o, via, emailValue, passwordValue) ==
    /\ overlays[o].attached
    /\ via = "click" => ~overlays[o].disabled
    /\ Commit(handleLoginSubmit(World, o, emailValue, passwordValue),
              [Op("submit") EXCEPT !.overlay = o])
    /\ UNCHANGED <<contribution, gate>>

\* What the backend can answer: a 2xx body with or without its fields, a
\* non-2xx with or without a detail, and a failed fetch or unreadable body.
Responses ==
    [kind : {"ok"}, access_token : Tokens \cup {Undefined}, user : Users \cup {UndefinedUser}]
    \cup [kind : {"notok"}, message : {"Authentication failed"}]
    \cup [kind : {"error"}]

\* A continuation that persists the token before the user.
handleLoginResponse_tokenFirst(w, o, r) ==
    LET w0 == [w EXCEPT !.overlays[o].pending = @ - 1]
        body ==
            IF r.kind = "notok" THEN showError(w0, o, r.message)
            ELSE IF r.kind = "error" THEN showError(w0, o, "Connection failed: Network error")
            ELSE LET w1 == store(w0, AUTH_TOKEN_KEY, r.access_token)
                     w2 == store(w1, AUTH_USER_KEY, JSONStringify(r.user))
                     w3 == hide(w2, o)
                 IN Emit(w3, [ev |-> "onAuthenticated", overlay |-> o])
    IN setButton(body, o, FALSE, "Sign In")

\* A continuation without the finally block: a failure leaves the button
\* disabled.
handleLoginResponse_noFinally(w, o, r) ==
    LET w0 == [w EXCEPT !.overlays[o].pending = @ - 1]
    IN IF r.kind = "notok" THEN showError(w0, o, r.message)
       ELSE IF r.kind = "error" THEN showError(w0, o, "Connection failed: Network error")
       ELSE LET w1 == store(w0, AUTH_USER_KEY, JSONStringify(r.user))
                w2 == store(w1, AUTH_TOKEN_KEY, r.access_token)
                w3 == hide(w2, o)
                w4 == Emit(w3, [ev |-> "onAuthenticated", overlay |-> o])
            IN setButton(w4, o, FALSE, "Sign In")

\* A continuation that does not hide the overlay on success.
handleLoginResponse_noHide(w, o, r) ==
    LET w0 == [w EXCEPT !.overlays[o].pending = @ - 1]
        body ==
            IF r.kind = "notok" THEN showError(w0, o, r.message)
            ELSE IF r.kind = "error" THEN showError(w0, o, "Connection failed: Network error")
            ELSE LET w1 == store(w0, AUTH_USER_KEY, JSONStringify(r.user))
                     w2 == store(w1, AUTH_TOKEN_KEY, r.access_token)
                 IN Emit(w2, [ev |-> "onAuthenticated", overlay |-> o])
    IN setButton(body, o, FALSE, "Sign In")

\* handleLogin after the awaits.
handleLoginResponse(w, o, r) ==
    LET w0 == [w EXCEPT !.overlays[o].pending = @ - 1]
        body ==
            IF r.kind = "notok" THEN showError(w0, o, r.message)
            ELSE IF r.kind = "error" THEN showError(w0, o, "Connection failed: Network error")
            ELSE LET w1 == store(w0, AUTH_USER_KEY, JSONStringify(r.user))
                     w2 == store(w1, AUTH_TOKEN_KEY, r.access_token)
                     w3 == hide(w2, o)
                 IN Emit(w3, [ev |-> "onAuthenticated", overlay |-> o])
    IN setButton(body, o, FALSE, "Sign In")

Response(o, r) ==
    /\ overlays[o].pending > 0
    /\ Commit(handleLoginResponse(World, o, r),
              [Op("response") EXCEPT !.overlay = o, !.kind = r.kind])
    /\ UNCHANGED <<contribution, gate>>

\* getSessions() called by the accounts UI.
GetSessions ==
    /\ Commit(Emit(World, [ev |-> "return", value |-> getSessions(storage)]), Op("getSessions"))
    /\ UNCHANGED <<contribution, gate>>

\* createSession(): the existing session, or an error to the caller.
createSession(w) ==
    LET session == readSession(w.storage)
    IN IF session # NullSession
       THEN Emit(w, [ev |-> "return", value |-> <<session>>])
       ELSE Emit(w, [ev |-> "throw"])

CreateSession ==
    /\ Commit(createSession(World), Op("createSession"))
    /\ UNCHANGED <<contribution, gate>>

\* A removeSession that fires `removed` before it clears the fields.
removeSession_fireFirst(w) ==
    LET existing == readSession(w.storage)
        w0 == IF existing # NullSession
              THEN Emit(w, [ev |-> "fire", added |-> NoSessions, removed |-> <<existing>>])
              ELSE w
        w1 == remove(w0, AUTH_TOKEN_KEY)
    IN remove(w1, AUTH_USER_KEY)

\* removeSession(): reads the session, removes both keys, fires `removed`
\* when a session was read.
removeSession(w) ==
    LET existing == readSession(w.storage)
        w1 == remove(w, AUTH_TOKEN_KEY)
        w2 == remove(w1, AUTH_USER_KEY)
    IN IF existing # NullSession
       THEN Emit(w2, [ev |-> "fire", added |-> NoSessions, removed |-> <<existing>>])
       ELSE w2

RemoveSession ==
    /\ Commit(removeSession(World), Op("removeSession"))
    /\ UNCHANGED <<contribution, gate>>

\* Any other writer of the application-scoped storage (another window, an
\* expiry job): the listeners of this window run as for a local write.
ExternalStore(key, value) ==
    /\ Commit(store(World, key, value), Op("externalStore"))
    /\ UNCHANGED <<contribution, gate>>

ExternalRemove(key) ==
    /\ Commit(remove(World, key), Op("externalRemove"))
    /\ UNCHANGED <<contribution, gate>>

Next ==
    \/ GateDispose
    \/ signOut
    \/ \E o \in 1..Len(overlays), via \in {"click", "enter"},
          e \in EmailInputs, p \in PasswordInputs : Submit(o, via, e, p)
    \/ \E o \in 1..Len(overlays), r \in Responses : Response(o, r)
    \/ GetSessions
    \/ CreateSession
    \/ RemoveSession
    \/ \E t \in StoredTokens : ExternalStore(AUTH_TOKEN_KEY, t)
    \/ \E u \in StoredUserTexts : ExternalStore(AUTH_USER_KEY, u)
    \/ \E k \in Keys : ExternalRemove(k)

Spec == Init /\ [][Next]_vars

---------------------------------------------------------------------------
(* Observations used by the properties *)

Attached == {o \in 1..Len(overlays) : overlays[o].attached}
token == storage[AUTH_TOKEN_KEY]
userJson == storage[AUTH_USER_KEY]

\* Positions in a log of the events satisfying a shape.
StoreAt(l, key) == {i \in 1..Len(l) : l[i].ev = "store" /\ l[i].key = key}
RemoveAt(l, key) == {i \in 1..Len(l) : l[i].ev = "remove" /\ l[i].key = key}
EventAt(l, ev) == {i \in 1..Len(l) : l[i].ev = ev}
Fired(l) == [i \in 1..Cardinality(EventAt(l, "fire")) |->
                l[CHOOSE j \in EventAt(l, "fire") :
                    Cardinality({k \in EventAt(l, "fire") : k <= j}) = i]]

---------------------------------------------------------------------------
(* Properties *)

\* C1: once a token mutation and its listeners have completed, an overlay is
\* attached if and only if the most recent token mutation was a remove (or
\* none occurred since a start without token).  The storage holds the
\* outcome of the most recent mutation, so that condition is "the token is
\* absent".
C1_OverlayIffTokenRemoved ==
    gate = "alive" => ((Attached # {}) <=> (token = Undefined))

\* C2: at most one overlay is attached to the container.
C2_AtMostOneOverlay ==
    Cardinality(Attached) <= 1

\* C3: a response arriving at an overlay that was detached while the
\* exchange was in flight writes nothing to the storage and updates no UI.
C3_TornDownResponseIgnored ==
    [][(lastOp'.op = "response" /\ ~overlays[lastOp'.overlay].attached)
        => /\ storage' = storage
           /\ \A i \in 1..Len(log') : log'[i].ev \notin {"store", "remove", "ui"}]_vars

\* C4: getSessions returns exactly one session if and only if the token
\* field is non-empty, whatever the user field holds.
C4_SessionIffToken ==
    (Len(getSessions(storage)) = 1) <=> ~Falsy(token)


\* C5: with a token and a user text that is not a user record, no read path
\* throws and getSessions returns one session with the stored token and the
\* placeholder identity.
C5_MalformedUserTolerated ==
    (~Falsy(token) /\ userJson \in MalformedTexts)
    => /\ Len(getSessions(storage)) = 1
       /\ getSessions(storage)[1].accessToken = token
       /\ getSessions(storage)[1].account = [id |-> "unknown", label |-> "unknown"]
       /\ (lastOp.op = "createSession" => EventAt(log, "throw") = {})

\* C6: after the sign-out command both fields are absent and getSessions
\* returns the empty list.
C6_SignOutClearsBoth ==
    lastOp.op = "signOut"
    => /\ token = Undefined
       /\ userJson = Undefined
       /\ getSessions(storage) = <<>>

\* A sign-out that removed a token: the provider's listener fired.
C6_Witness ==
    lastOp.op = "signOut" /\ EventAt(log, "fire") # {}

\* C7: the sign-out command removes the token field before the user field.
C7_SignOutTokenFirst ==
    lastOp.op = "signOut"
    => \E i \in RemoveAt(log, AUTH_TOKEN_KEY), j \in RemoveAt(log, AUTH_USER_KEY) : i < j

\* C8 (as claimed): a successful exchange (a 2xx whose body has the token
\* and the user) writes the token field, then the user field, then hides the
\* overlay, then invokes the callback.
C8_TokenThenUserThenHide ==
    (/\ lastOp.op = "response" /\ lastOp.kind = "ok"
     /\ \A k \in EventAt(log, "store") : log[k].value # Undefined)
    => \E i \in StoreAt(log, AUTH_TOKEN_KEY), j \in StoreAt(log, AUTH_USER_KEY),
          h \in EventAt(log, "hide"), c \in EventAt(log, "onAuthenticated") :
          /\ i < j /\ j < h /\ h < c
          /\ log[h].overlay = lastOp.overlay

\* C8 (amended): a successful exchange writes the user field, then the token
\* field, each once, then hides the overlay, then invokes the callback.
C8_UserThenTokenThenHide ==
    (lastOp.op = "response" /\ lastOp.kind = "ok")
    => /\ Cardinality(StoreAt(log, AUTH_USER_KEY)) = 1
       /\ Cardinality(StoreAt(log, AUTH_TOKEN_KEY)) = 1
       /\ \E i \in StoreAt(log, AUTH_USER_KEY), j \in StoreAt(log, AUTH_TOKEN_KEY),
             h \in EventAt(log, "hide"), c \in EventAt(log, "onAuthenticated") :
             /\ i < j /\ j < h /\ h < c
             /\ log[h].overlay = lastOp.overlay
             /\ log[c].overlay = lastOp.overlay

\* A login that succeeded: the response handler stored a token and a user.
C8_Witness ==
    /\ lastOp.op = "response" /\ lastOp.kind = "ok"
    /\ token \in Tokens /\ userJson \in UserTexts
    /\ ~overlays[lastOp.overlay].attached

\* C9: removeSession clears both fields and fires exactly one notification
\* with `removed`, carrying the session read before the clear, if and only
\* if the token was non-empty before the call.
C9_RemovedIffSessionExisted ==
    [][lastOp'.op = "removeSession"
        => LET removedAt == {i \in EventAt(log', "fire") : log'[i].removed # NoSessions}
           IN /\ storage'[AUTH_TOKEN_KEY] = Undefined
              /\ storage'[AUTH_USER_KEY] = Undefined
              /\ (Cardinality(removedAt) = 1) <=> ~Falsy(storage[AUTH_TOKEN_KEY])
              /\ Cardinality(removedAt) <= 1
              /\ \A i \in removedAt : log'[i].removed = <<readSession(storage)>>]_vars

\* C10: a token change made by a writer other than the provider makes the
\* provider fire one notification: `added` with the freshly read session
\* when the token became present, nothing in `added` and `removed` when it
\* became absent.
C10_ExternalChangeNotified ==
    [][(/\ lastOp'.op \in {"externalStore", "externalRemove", "signOut", "response"}
        /\ storage'[AUTH_TOKEN_KEY] # storage[AUTH_TOKEN_KEY])
        => LET f == Fired(log')
           IN /\ Len(f) = 1
              /\ f[1].removed = NoSessions
              /\ IF ~Falsy(storage'[AUTH_TOKEN_KEY])
                 THEN /\ readSession(storage') # NullSession
                      /\ f[1].added = <<readSession(storage')>>
                 ELSE f[1].added = NoSessions]_vars

\* C11: when no handler is running, the gate is alive and the token is
\* absent, at least one overlay is attached.
C11_AbsentTokenShowsOverlay ==
    (gate = "alive" /\ Falsy(token)) => Attached # {}

\* C12: the sign-out command constructs, shows and hides no overlay: every
\* overlay was constructed by the gate, and a sign-out hides none.
C12_SignOutOnlyMutatesStore ==
    /\ \A o \in 1..Len(overlays) : overlays[o].owner = "gate"
    /\ lastOp.op = "signOut" => EventAt(log, "hide") = {}

\* C14: while an exchange of an overlay is in flight, its submit button is
\* disabled (stated for the overlays that are still in the document).
C14_InFlightDisablesSubmit ==
    \A o \in 1..Len(overlays) :
        (overlays[o].attached /\ overlays[o].pending > 0) => overlays[o].disabled

\* C17: when the gate's initial read of the token throws, the constructor
\* completes and the login overlay is attached.
C17_InitialReadFailsClosed ==
    (lastOp.op = "init" /\ lastOp.kind = "readThrows")
    => /\ gate = "alive"
       /\ Attached = {1}
       /\ EventAt(log, "throw") = {}

\* A start whose read threw although a token was persisted.
C17_Witness ==
    /\ lastOp.op = "init" /\ lastOp.kind = "readThrows"
    /\ token \in Tokens
    /\ Attached # {}

\* The session the spec derives from a token and a user record.
ExternalSession(t, u) ==
    [id |-> "talemo-" \o u.id, accessToken |-> t,
     account |-> [id |-> u.id, label |-> u.email], scopes |-> <<"talemo">>]

\* C18: with a non-empty token t and the serialisation of a user {id, email}
\* in the user field, getSessions is exactly the one session derived from
\* them, and a getSessions call returns that of the storage as it is now.
C18_SessionRoundTrip ==
    \A u \in Users :
        (token \in Tokens /\ userJson = JSONStringify(u))
        => /\ getSessions(storage) = <<ExternalSession(token, u)>>
           /\ lastOp.op = "getSessions"
              => log = <<[ev |-> "return", value |-> <<ExternalSession(token, u)>>]>>

\* A getSessions call on a stored token and user record.
C18_Witness ==
    /\ lastOp.op = "getSessions"
    /\ token = "tok2" /\ userJson = JSONStringify([id |-> "42", email |-> "b@x.com"])
    /\ Len(log) = 1 /\ Len(log[1].value) = 1

\* C20: when an overlay hides itself after a 2xx response, the token field
\* is non-empty.
C20_HidesOnlyWithToken ==
    (lastOp.op = "response" /\ lastOp.kind = "ok" /\ EventAt(log, "hide") # {})
    => ~Falsy(token)

\* C13: a submission whose email or password is empty after trimming
\* issues no exchange, leaves the storage unchanged and shows the error
\* "Please enter your email and password.".
C13_BlankSubmissionRejected ==
    [][lastOp'.op = "submit"
        => \A via \in {"click", "enter"}, e \in EmailInputs, p \in PasswordInputs :
              (Submit(lastOp'.overlay, via, e, p) /\ (Trim(e) = "" \/ Trim(p) = ""))
              => /\ EventAt(log', "fetch") = {}
                 /\ storage' = storage
                 /\ overlays'[lastOp'.overlay].errorVisible
                 /\ \E i \in 1..Len(log') :
                       log'[i] = [ev |-> "ui", overlay |-> lastOp'.overlay,
                                  what |-> "showError",
                                  text |-> "Please enter your email and password."]]_vars

\* C15: a failed exchange (non-2xx, unreadable body, network error) leaves
\* the storage unchanged and the overlay attached as it was, shows an error
\* and re-enables the submit button.
C15_FailedExchangeRetryable ==
    [][(lastOp'.op = "response" /\ lastOp'.kind \in {"notok", "error"})
        => LET o == lastOp'.overlay
           IN /\ storage' = storage
              /\ overlays'[o].attached = overlays[o].attached
              /\ overlays'[o].errorVisible
              /\ ~overlays'[o].disabled
              /\ overlays'[o].buttonText = "Sign In"
              /\ \E i \in 1..Len(log') :
                    /\ log'[i].ev = "ui" /\ log'[i].what = "showError"
                    /\ log'[i].overlay = o /\ log'[i].text # ""]_vars

\* A failed exchange on an attached overlay, which can be resubmitted.
C15_Witness ==
    /\ lastOp.op = "response" /\ lastOp.kind \in {"notok", "error"}
    /\ overlays[lastOp.overlay].attached
    /\ overlays[lastOp.overlay].errorVisible
    /\ ~overlays[lastOp.overlay].disabled

\* C16: createSession returns the existing session when the token is
\* present and throws to its caller when it is not; it writes no field and
\* fires no notification.
C16_CreateSessionReportsOrFails ==
    [][lastOp'.op = "createSession"
        => /\ storage' = storage
           /\ overlays' = overlays
           /\ \A i \in 1..Len(log') : log'[i].ev \notin {"store", "remove", "fire"}
           /\ IF ~Falsy(storage[AUTH_TOKEN_KEY])
              THEN /\ Len(log') = 1 /\ log'[1].ev = "return"
                   /\ Len(log'[1].value) = 1
                   /\ log'[1].value[1].accessToken = storage[AUTH_TOKEN_KEY]
              ELSE log' = <<[ev |-> "throw"]>>]_vars

\* C19: with no token and this overlay the only one attached, a 2xx response
\* carrying a token t and a user {id, email} ends with no overlay attached,
\* the token field equal to t and getSessions reporting the one session
\* "talemo-" + id.
C19_LoginEndToEnd ==
    [][(/\ lastOp'.op = "response" /\ lastOp'.kind = "ok"
        /\ Falsy(storage[AUTH_TOKEN_KEY])
        /\ Attached = {lastOp'.overlay}
        /\ \A k \in EventAt(log', "store") : log'[k].value # Undefined)
        => /\ Attached' = {}
           /\ \E i \in StoreAt(log', AUTH_TOKEN_KEY) :
                 /\ log'[i].value \in Tokens
                 /\ storage'[AUTH_TOKEN_KEY] = log'[i].value
           /\ \E u \in Users, j \in StoreAt(log', AUTH_USER_KEY) :
                 /\ log'[j].value = JSONStringify(u)
                 /\ Len(getSessions(storage')) = 1
                 /\ getSessions(storage')[1].id = "talemo-" \o u.id
                 /\ getSessions(storage')[1].accessToken = storage'[AUTH_TOKEN_KEY]]_vars

\* A login on the only overlay that made the token present: the provider
\* fired `added`, and nothing is attached any more.
C19_Witness ==
    /\ lastOp.op = "response" /\ lastOp.kind = "ok"
    /\ Len(overlays) = 1 /\ Attached = {}
    /\ token = "tok1" /\ userJson = JSONStringify([id |-> "42", email |-> "b@x.com"])
    /\ \E i \in EventAt(log, "fire") : Len(log[i].added) = 1

\* C21: the `added` notification fired during a successful login (a 2xx
\* whose body has the token and the user) carries the identity of the user
\* of that response, and is fired after the user field was written.
C21_AddedCarriesNewUser ==
    (/\ lastOp.op = "response" /\ lastOp.kind = "ok"
     /\ \A k \in EventAt(log, "store") : log[k].value # Undefined)
    => \A i \in EventAt(log, "fire") :
          /\ Len(log[i].added) = 1
          /\ log[i].removed = NoSessions
          /\ \E u \in Users, j \in StoreAt(log, AUTH_USER_KEY) :
                /\ j < i
                /\ log[j].value = JSONStringify(u)
                /\ log[i].added[1].id = "talemo-" \o u.id
                /\ log[i].added[1].account = [id |-> u.id, label |-> u.email]

\* A login whose token write fired `added`.
C21_Witness ==
    /\ lastOp.op = "response" /\ lastOp.kind = "ok"
    /\ userJson = JSONStringify([id |-> "42", email |-> "b@x.com"])
    /\ \E i \in EventAt(log, "fire") :
          Len(log[i].added) = 1 /\ log[i].added[1].id = "talemo-42"

\* C22: removeSession on a session the provider reads fires two
\* notifications: the empty one, from its own listener while the token is
\* being removed, and then the one with `removed` carrying the session read
\* before the removal.
C22_RemoveSessionFiresTwice ==
    [][(lastOp'.op = "removeSession" /\ readSession(storage) # NullSession)
        => /\ Fired(log') =
                <<[ev |-> "fire", added |-> NoSessions, removed |-> NoSessions],
                  [ev |-> "fire", added |-> NoSessions,
                   removed |-> <<readSession(storage)>>]>>
           /\ readSession(storage).accessToken = storage[AUTH_TOKEN_KEY]
           /\ \E t \in RemoveAt(log', AUTH_TOKEN_KEY), u \in RemoveAt(log', AUTH_USER_KEY),
                 e \in EventAt(log', "fire") :
                 /\ t < e /\ e < u
                 /\ log'[e].removed = NoSessions
                 /\ log'[Len(log')].ev = "fire"
                 /\ log'[Len(log')].removed # NoSessions]_vars

\* A removeSession that fired both notifications.
C22_Witness ==
    /\ lastOp.op = "removeSession"
    /\ Cardinality(EventAt(log, "fire")) = 2
    /\ log[Len(log)].ev = "fire"
    /\ Len(log[Len(log)].removed) = 1
    /\ token = Undefined /\ userJson = Undefined

====
